---------------------------- MODULE Spec2Model ----------------------------
(***************************************************************************)
(* ragequit: the global Shutdown instance (src/src/lib.rs), its            *)
(* ShutdownListener and Wait futures, and the callers of quit().           *)
(*                                                                         *)
(* Every atomic access of the source is one step of the model: the         *)
(* fetch_add of inc, the fetch_sub and the flag load of dec, the store,    *)
(* the two notify_waiters calls and the counter load of quit, the loads    *)
(* of the two poll functions and the poll of the inner Notified.  Steps of *)
(* different listeners, waits and quit callers interleave freely, as the   *)
(* threads of a multi-threaded runtime and a signal handler do.  The       *)
(* interleaving is sequentially consistent: a load returns the latest      *)
(* value stored.  The source asks for Acquire, Release and AcqRel only,    *)
(* which do not by themselves forbid the fetch_sub/load of dec and the     *)
(* store/load of quit from both reading the older value; what is checked   *)
(* here is checked of the interleavings, not of that outcome.              *)
(*                                                                         *)
(* counter is an AtomicUsize; it is only decremented by the drop of a      *)
(* listener whose listen() incremented it, so it never wraps.              *)
(*                                                                         *)
(* tokio::sync::Notify is used through notified() and notify_waiters()     *)
(* only.  notify_waiters() reaches every Notified that exists when it is   *)
(* called, polled or not, and none created later; it wakes the tasks of    *)
(* those that are queued as waiters.  A Notified that was reached          *)
(* completes on its next poll; one that was not is queued by its poll.     *)
(*                                                                         *)
(* Notified::poll and Notify::notify_waiters work on the waiter list of    *)
(* their Notify under its mutex.  The runs that hold a signal handler      *)
(* (SignalSpec) make the entry into the list a step of its own; the other  *)
(* runs take the call as one step.  The drop of a Notified is one step in  *)
(* both.                                                                   *)
(***************************************************************************)
EXTENDS Integers, FiniteSets

\* Bounds of the model: how many listen(), wait() and quit() calls a run holds.
MaxListeners == 2
MaxWaits == 1
MaxQuits == 2

Listeners == 1..MaxListeners
Waits == 1..MaxWaits
Quits == 1..MaxQuits

VARIABLES
    in_progress,      \* Shutdown.in_progress
    counter,          \* Shutdown.counter
    notify_shutdown,  \* Shutdown.notify_shutdown: the listeners queued as waiters
    notify_done,      \* Shutdown.notify_done: the waits queued as waiters
    lpc,              \* per listener: where its owner stands
    lnotified,        \* per listener: ShutdownListener.notified
    lwake,            \* per listener: its task is scheduled for a poll
    lprev,            \* per listener: the local prev of dec
    llast,            \* per listener: what its latest poll returned
    lafter,           \* per listener: listen() began after quit() stored the flag
    late,             \* some listen() began after quit() stored the flag
    wpc,              \* per wait: where its owner stands
    wnotified,        \* per wait: Wait.notified
    wwake,            \* per wait: its task is scheduled for a poll
    wlast,            \* per wait: what its latest poll returned
    wvia,             \* per wait: which branch of poll returned Ready
    wlive,            \* per wait: the listeners alive when it returned Ready
    wbase,            \* per wait: notify_done was broadcast, since wait(), by
                      \*           something other than a repeated quit()
    qpc,              \* per quit caller: where it stands
    qextra,           \* per quit caller: an earlier quit() had returned
    observed,         \* some is_in_progress() call has returned true
    track,            \* whether this run keeps the records that only the
                      \* safety properties read (lafter, late, wvia, wlive,
                      \* wbase, qextra, observed, signalled, "ReadyAgain");
                      \* never changes
    signalled,        \* notify_done was broadcast with in_progress true and
                      \* counter 0, and the counter has not risen since
    handler,          \* the quit() call that a signal handler makes, and the
                      \* thread the signal interrupted
    mutex             \* per Notify: the thread inside its waiter list

vars == << in_progress, counter, notify_shutdown, notify_done,
           lpc, lnotified, lwake, lprev, llast, lafter, late,
           wpc, wnotified, wwake, wlast, wvia, wlive, wbase,
           qpc, qextra, observed, signalled, track, handler, mutex >>

lvars == << lpc, lnotified, lwake, lprev, llast, lafter, late >>
wvars == << wpc, wnotified, wwake, wlast, wvia, wlive, wbase >>
qvars == << qpc, qextra >>

-----------------------------------------------------------------------------
(* tokio::sync::Notify and Notified, as used by the source *)

\* Notify::const_new(): no waiters
NotifyNew == {}

\* Notify::notified(): a future no notify_waiters call has reached yet
NotifiedNew == "init"

\* A broadcast that reaches only the futures that are queued
NotifyQueuedOnly(f) == IF f = "waiting" THEN "notified" ELSE f

\* notify_waiters reaches every future that exists, polled or not
Notify(f) == IF f \in {"init", "waiting"} THEN "notified" ELSE f

\* Notified::poll: the state of the future after the poll
NotifiedPoll(f) ==
    CASE f = "init"     -> "waiting"
      [] f = "waiting"  -> "waiting"
      [] f = "notified" -> "done"
      [] OTHER          -> "done"

\* Poll::Ready(()) or Poll::Pending, from the state the poll left
PollResult(f) == IF f = "done" THEN "Ready" ELSE "Pending"

\* The waiter queue after future id was polled and left in state f
Enqueue(n, id, f) == IF f = "waiting" THEN n \cup {id} ELSE n

\* Dropping a Notified removes it from the waiter queue
Dequeue(n, id) == n \ {id}

\* notify_waiters invokes the waker of each queued future
Woken(f, wake) == wake \/ f = "waiting"

-----------------------------------------------------------------------------
(* The decisions of the source, one operator each *)

\* Shutdown::inc: counter.fetch_add(1)
Inc(c) == c + 1

\* A drop that leaves the counter as it is
FetchSubNothing(c) == c

\* Shutdown::dec: counter.fetch_sub(1)
FetchSub(c) == c - 1

\* dec taking the value fetch_sub returns for the new value of the counter
DecNotifiesNewValue(ip, prev) == ip /\ prev = 0

\* dec broadcasting whenever the counter reaches 0, shutdown or not
DecNotifiesUnflagged(ip, prev) == prev = 1

\* dec with the test of the flag inverted
DecNotifiesFlagInverted(ip, prev) == ~ip /\ prev = 1

\* Shutdown::dec: in_progress.load() && prev == 1
DecNotifies(ip, prev) == ip /\ prev = 1

\* quit toggling the flag
QuitStoreToggle == ~in_progress

\* Shutdown::quit: the value stored to in_progress
QuitStore == TRUE

\* A quit() that leaves the drain signal to dec
QuitNeverNotifies(c) == FALSE

\* Shutdown::quit: counter.load() == 0
QuitNotifies(c) == c = 0

\* A poll without the eager check
ListenerNoEagerCheck(ip) == FALSE

\* A poll with the eager check inverted
ListenerReadyInverted(ip) == ~ip

\* ShutdownListener::poll: if self.is_in_progress() { return Ready }
ListenerReady(ip) == ip

\* A swap(false) where the source loads
FlagSwap(ip) == FALSE

\* AtomicBool::load: the value it leaves in in_progress
FlagLoad(ip) == ip

\* A swap(0) where the source loads
CounterSwap(c) == 0

\* AtomicUsize::load: the value it leaves in counter
CounterLoad(c) == c

\* Wait::poll: the first half of the condition, in_progress.load()
WaitFlag(ip) == ip

\* A poll without the eager check of the counter
WaitReadyNever(c) == FALSE

\* Wait::poll: the second half of the condition, counter.load() == 0
WaitReady(c) == c = 0

-----------------------------------------------------------------------------
\* A ShutdownListener that exists: listen() has returned it and drop has not begun
Alive(l) == lpc[l] \in {"idle", "poll_notified"}

\* The listeners the counter accounts for: inc has run, fetch_sub has not
Counted(l) == lpc[l] \in {"listen_notified", "idle", "poll_notified"}

LiveCount == Cardinality({l \in Listeners : Alive(l)})

\* A quit() call has returned
QuitReturned == \E q \in Quits : qpc[q] = "done"

\* A record that is kept only when the run tracks it
Ghost(new, old) == IF track THEN new ELSE old

\* Listeners, waits and quit callers are numbered in the order they appear
InOrder(pc, i) == IF i = 1 THEN TRUE ELSE pc[i - 1] # "none"

\* The threads: the caller of each listener's, wait's and quit's operations
Thread(kind, i) == << kind, i >>

\* No thread is inside the waiter list
Free == Thread("free", 0)

\* Signals are left out of the run
NoSignals == [q |-> 0, on |-> Thread("off", 0)]

\* Signals are part of the run, and none was delivered yet
NoSignalYet == [q |-> 0, on |-> Thread("none", 0)]

Signals == handler.on[1] # "off"

\* A thread that a signal interrupted stands still until the handler returns
Frozen(t) == handler.q # 0 /\ handler.on = t /\ qpc[handler.q] # "done"

\* Thread t is inside the waiter list of Notify m
Holds(t, m) == Signals => mutex[m] = t

\* A step of thread t that touches no waiter list
Step(t) ==
    /\ ~Frozen(t)
    /\ UNCHANGED << track, handler, mutex >>

\* A step of thread t inside the waiter list of Notify m, which it then leaves
Critical(t, m) ==
    /\ ~Frozen(t)
    /\ Holds(t, m)
    /\ mutex' = [mutex EXCEPT ![m] = Free]
    /\ UNCHANGED << track, handler >>

Start ==
    /\ mutex = [m \in {"notify_shutdown", "notify_done"} |-> Free]
    /\ in_progress = FALSE
    /\ counter = 0
    /\ notify_shutdown = NotifyNew
    /\ notify_done = NotifyNew
    /\ lpc = [l \in Listeners |-> "none"]
    /\ lnotified = [l \in Listeners |-> "none"]
    /\ lwake = [l \in Listeners |-> FALSE]
    /\ lprev = [l \in Listeners |-> 0]
    /\ llast = [l \in Listeners |-> "none"]
    /\ lafter = [l \in Listeners |-> FALSE]
    /\ late = FALSE
    /\ wpc = [w \in Waits |-> "none"]
    /\ wnotified = [w \in Waits |-> "none"]
    /\ wwake = [w \in Waits |-> FALSE]
    /\ wlast = [w \in Waits |-> "none"]
    /\ wvia = [w \in Waits |-> "none"]
    /\ wlive = [w \in Waits |-> 0]
    /\ wbase = [w \in Waits |-> FALSE]
    /\ qpc = [q \in Quits |-> "none"]
    /\ qextra = [q \in Quits |-> FALSE]
    /\ observed = FALSE
    /\ signalled = FALSE

Init == Start /\ track = TRUE /\ handler = NoSignals

-----------------------------------------------------------------------------
(* Shutdown::listen *)

\* self.inc()
ListenInc(l) ==
    /\ Step(<< "l", l >>)
    /\ lpc[l] = "none"
    /\ InOrder(lpc, l)
    /\ counter' = Inc(counter)
    /\ lpc' = [lpc EXCEPT ![l] = "listen_notified"]
    /\ lafter' = [lafter EXCEPT ![l] = Ghost(in_progress, @)]
    /\ late' = Ghost(late \/ in_progress, late)
    /\ signalled' = FALSE
    /\ UNCHANGED << in_progress, notify_shutdown, notify_done, lnotified, lwake,
                    lprev, llast, wvars, qvars, observed >>

\* ShutdownListener { notified: self.notify_shutdown.notified() }
ListenNotified(l) ==
    /\ Step(<< "l", l >>)
    /\ lpc[l] = "listen_notified"
    /\ lnotified' = [lnotified EXCEPT ![l] = NotifiedNew]
    /\ lwake' = [lwake EXCEPT ![l] = TRUE]
    /\ lpc' = [lpc EXCEPT ![l] = "idle"]
    /\ UNCHANGED << in_progress, counter, notify_shutdown, notify_done,
                    lprev, llast, lafter, late, wvars, qvars, observed, signalled >>

(* ShutdownListener::is_in_progress, called by the holder of the listener *)
IsInProgress(l) ==
    /\ Step(<< "l", l >>)
    /\ lpc[l] = "idle"
    /\ observed' = Ghost(observed \/ in_progress, observed)
    /\ in_progress' = FlagLoad(in_progress)
    /\ UNCHANGED << counter, notify_shutdown, notify_done,
                    lvars, wvars, qvars, signalled >>

(* ShutdownListener::poll *)

\* The record of a poll that returns r: a Ready after a Ready is "ReadyAgain"
Returned(last, r) ==
    IF r = "Ready" /\ last \in {"Ready", "ReadyAgain"}
      THEN Ghost("ReadyAgain", "Ready")
      ELSE r

\* if self.is_in_progress() { return Poll::Ready(()) }
ListenerPollLoad(l) ==
    /\ Step(<< "l", l >>)
    /\ lpc[l] = "idle"
    /\ lwake' = [lwake EXCEPT ![l] = FALSE]
    /\ IF ListenerReady(in_progress)
         THEN /\ llast' = [llast EXCEPT ![l] = Returned(@, "Ready")]
              /\ UNCHANGED lpc
         ELSE /\ lpc' = [lpc EXCEPT ![l] = "poll_notified"]
              /\ UNCHANGED llast
    /\ in_progress' = FlagLoad(in_progress)
    /\ UNCHANGED << counter, notify_shutdown, notify_done,
                    lnotified, lprev, lafter, late, wvars, qvars, observed, signalled >>

\* self.project().notified.poll(cx)
ListenerPollNotified(l) ==
    /\ Critical(<< "l", l >>, "notify_shutdown")
    /\ lpc[l] = "poll_notified"
    /\ LET f == NotifiedPoll(lnotified[l])
       IN /\ lnotified' = [lnotified EXCEPT ![l] = f]
          /\ notify_shutdown' = Enqueue(notify_shutdown, l, f)
          /\ llast' = [llast EXCEPT ![l] = Returned(@, PollResult(f))]
    /\ lpc' = [lpc EXCEPT ![l] = "idle"]
    /\ UNCHANGED << in_progress, counter, notify_done, lwake, lprev, lafter, late,
                    wvars, qvars, observed, signalled >>

-----------------------------------------------------------------------------
(* notify_done.notify_waiters(), by dec or by quit; extra: by a repeated quit *)
BroadcastDone(extra) ==
    /\ notify_done' = NotifyNew
    /\ wnotified' = [w \in Waits |-> Notify(wnotified[w])]
    /\ wwake' = [w \in Waits |-> Woken(wnotified[w], wwake[w])]
    /\ wbase' = [w \in Waits |->
                   Ghost(wbase[w] \/ (~extra /\ wpc[w] \notin {"none", "dropped"}),
                         wbase[w])]
    /\ signalled' = Ghost(signalled \/ (in_progress /\ counter = 0), signalled)
    /\ UNCHANGED << wpc, wlast, wvia, wlive >>

(* PinnedDrop for ShutdownListener: SHUTDOWN.dec(), then the fields are dropped *)

\* The listener is gone: its Notified leaves the waiter queue
Dropped(l) ==
    /\ lpc' = [lpc EXCEPT ![l] = "dropped"]
    /\ lnotified' = [lnotified EXCEPT ![l] = "dropped"]
    /\ lwake' = [lwake EXCEPT ![l] = FALSE]
    /\ lprev' = [lprev EXCEPT ![l] = 0]
    /\ llast' = [llast EXCEPT ![l] = "none"]
    /\ lafter' = [lafter EXCEPT ![l] = FALSE]
    /\ notify_shutdown' = Dequeue(notify_shutdown, l)

\* let prev = self.counter.fetch_sub(1)
DropFetchSub(l) ==
    /\ Step(<< "l", l >>)
    /\ lpc[l] = "idle"
    /\ lprev' = [lprev EXCEPT ![l] = counter]
    /\ counter' = FetchSub(counter)
    /\ lpc' = [lpc EXCEPT ![l] = "dec_load"]
    /\ UNCHANGED << in_progress, notify_shutdown, notify_done, lnotified, lwake,
                    llast, lafter, late, wvars, qvars, observed, signalled >>

\* if self.in_progress.load() && prev == 1
DecLoad(l) ==
    /\ Step(<< "l", l >>)
    /\ lpc[l] = "dec_load"
    /\ IF DecNotifies(in_progress, lprev[l])
         THEN /\ lpc' = [lpc EXCEPT ![l] = "dec_notify"]
              /\ UNCHANGED << lnotified, lwake, lprev, llast, lafter, notify_shutdown >>
         ELSE Dropped(l)
    /\ in_progress' = FlagLoad(in_progress)
    /\ UNCHANGED << counter, notify_done, late, wvars, qvars, observed, signalled >>

\* self.notify_done.notify_waiters()
DecNotify(l) ==
    /\ Critical(<< "l", l >>, "notify_done")
    /\ lpc[l] = "dec_notify"
    /\ BroadcastDone(FALSE)
    /\ Dropped(l)
    /\ UNCHANGED << in_progress, counter, late, qvars, observed >>

-----------------------------------------------------------------------------
(* Shutdown::quit *)

\* self.in_progress.store(true)
QuitStoreFlag(q) ==
    /\ Step(<< "q", q >>)
    /\ qpc[q] = "none"
    /\ InOrder(qpc, q)
    /\ in_progress' = QuitStore
    /\ qextra' = [qextra EXCEPT ![q] = Ghost(QuitReturned, @)]
    /\ qpc' = [qpc EXCEPT ![q] = "notify_shutdown"]
    /\ UNCHANGED << counter, notify_shutdown, notify_done, lvars, wvars, observed, signalled >>

\* self.notify_shutdown.notify_waiters()
QuitNotifyShutdown(q) ==
    /\ Critical(<< "q", q >>, "notify_shutdown")
    /\ qpc[q] = "notify_shutdown"
    /\ notify_shutdown' = NotifyNew
    /\ lnotified' = [l \in Listeners |-> Notify(lnotified[l])]
    /\ lwake' = [l \in Listeners |-> Woken(lnotified[l], lwake[l])]
    /\ qpc' = [qpc EXCEPT ![q] = "load"]
    /\ UNCHANGED << in_progress, counter, notify_done, lpc, lprev, llast, lafter,
                    late, wvars, qextra, observed, signalled >>

\* if self.counter.load() == 0
QuitLoad(q) ==
    /\ Step(<< "q", q >>)
    /\ qpc[q] = "load"
    /\ qpc' = [qpc EXCEPT ![q] = IF QuitNotifies(counter) THEN "notify_done" ELSE "done"]
    /\ counter' = CounterLoad(counter)
    /\ UNCHANGED << in_progress, notify_shutdown, notify_done,
                    lvars, wvars, qextra, observed, signalled >>

\* self.notify_done.notify_waiters()
QuitNotifyDone(q) ==
    /\ Critical(<< "q", q >>, "notify_done")
    /\ qpc[q] = "notify_done"
    /\ BroadcastDone(qextra[q])
    /\ qpc' = [qpc EXCEPT ![q] = "done"]
    /\ UNCHANGED << in_progress, counter, notify_shutdown, lvars, qextra, observed >>

-----------------------------------------------------------------------------
(* Shutdown::wait *)
WaitNew(w) ==
    /\ Step(<< "w", w >>)
    /\ wpc[w] = "none"
    /\ InOrder(wpc, w)
    /\ wnotified' = [wnotified EXCEPT ![w] = NotifiedNew]
    /\ wwake' = [wwake EXCEPT ![w] = TRUE]
    /\ wpc' = [wpc EXCEPT ![w] = "idle"]
    /\ UNCHANGED << in_progress, counter, notify_shutdown, notify_done,
                    lvars, wlast, wvia, wlive, wbase, qvars, observed, signalled >>

(* Wait::poll; the future is awaited, so it is not polled again after Ready *)

\* What a poll that returns r, from the branch how, leaves in the wait's records
WaitReturns(w, r, how) ==
    /\ wlast' = [wlast EXCEPT ![w] = r]
    /\ wvia' = [wvia EXCEPT ![w] = IF r = "Ready" THEN Ghost(how, @) ELSE @]
    /\ wlive' = [wlive EXCEPT ![w] = IF r = "Ready" THEN Ghost(LiveCount, @) ELSE @]

\* if self.inner.in_progress.load() && ...
WaitPollLoad(w) ==
    /\ Step(<< "w", w >>)
    /\ wpc[w] = "idle"
    /\ wlast[w] # "Ready"
    /\ wwake' = [wwake EXCEPT ![w] = FALSE]
    /\ wpc' = [wpc EXCEPT ![w] = IF WaitFlag(in_progress) THEN "poll_counter"
                                 ELSE "poll_notified"]
    /\ in_progress' = FlagLoad(in_progress)
    /\ UNCHANGED << counter, notify_shutdown, notify_done,
                    lvars, wnotified, wlast, wvia, wlive, wbase, qvars, observed, signalled >>

\* ... && self.inner.counter.load() == 0 { return Poll::Ready(()) }
WaitPollCounter(w) ==
    /\ Step(<< "w", w >>)
    /\ wpc[w] = "poll_counter"
    /\ IF WaitReady(counter)
         THEN /\ WaitReturns(w, "Ready", "eager")
              /\ wpc' = [wpc EXCEPT ![w] = "idle"]
         ELSE /\ wpc' = [wpc EXCEPT ![w] = "poll_notified"]
              /\ UNCHANGED << wlast, wvia, wlive >>
    /\ counter' = CounterLoad(counter)
    /\ UNCHANGED << in_progress, notify_shutdown, notify_done,
                    lvars, wnotified, wwake, wbase, qvars, observed, signalled >>

\* self.project().notified.poll(cx)
WaitPollNotified(w) ==
    /\ Critical(<< "w", w >>, "notify_done")
    /\ wpc[w] = "poll_notified"
    /\ LET f == NotifiedPoll(wnotified[w])
       IN /\ wnotified' = [wnotified EXCEPT ![w] = f]
          /\ notify_done' = Enqueue(notify_done, w, f)
          /\ WaitReturns(w, PollResult(f), "notified")
    /\ wpc' = [wpc EXCEPT ![w] = "idle"]
    /\ UNCHANGED << in_progress, counter, notify_shutdown, lvars, wwake, wbase,
                    qvars, observed, signalled >>

\* The Wait is dropped: its Notified leaves the waiter queue
WaitDrop(w) ==
    /\ Step(<< "w", w >>)
    /\ wpc[w] = "idle"
    /\ wpc' = [wpc EXCEPT ![w] = "dropped"]
    /\ wnotified' = [wnotified EXCEPT ![w] = "dropped"]
    /\ wwake' = [wwake EXCEPT ![w] = FALSE]
    /\ wlast' = [wlast EXCEPT ![w] = "none"]
    /\ wvia' = [wvia EXCEPT ![w] = "none"]
    /\ wlive' = [wlive EXCEPT ![w] = 0]
    /\ wbase' = [wbase EXCEPT ![w] = FALSE]
    /\ notify_done' = Dequeue(notify_done, w)
    /\ UNCHANGED << in_progress, counter, notify_shutdown, lvars, qvars, observed, signalled >>

-----------------------------------------------------------------------------
Next ==
    \/ \E l \in Listeners : ListenInc(l)
    \/ \E l \in Listeners : ListenNotified(l)
    \/ \E l \in Listeners : IsInProgress(l)
    \/ \E l \in Listeners : ListenerPollLoad(l)
    \/ \E l \in Listeners : ListenerPollNotified(l)
    \/ \E l \in Listeners : DropFetchSub(l)
    \/ \E l \in Listeners : DecLoad(l)
    \/ \E l \in Listeners : DecNotify(l)
    \/ \E q \in Quits : QuitStoreFlag(q)
    \/ \E q \in Quits : QuitNotifyShutdown(q)
    \/ \E q \in Quits : QuitLoad(q)
    \/ \E q \in Quits : QuitNotifyDone(q)
    \/ \E w \in Waits : WaitNew(w)
    \/ \E w \in Waits : WaitPollLoad(w)
    \/ \E w \in Waits : WaitPollCounter(w)
    \/ \E w \in Waits : WaitPollNotified(w)
    \/ \E w \in Waits : WaitDrop(w)

Spec == Init /\ [][Next]_vars

-----------------------------------------------------------------------------
(* Scheduling.  A thread that is inside listen(), poll, drop or quit() goes  *)
(* on to the end of the call; an executor polls a task that was spawned or   *)
(* woken.  Nothing obliges anyone to call listen(), wait() or quit(), to     *)
(* drop a future, or to poll a task that was not woken.                      *)

ListenerRuns(l) ==
    \/ ListenNotified(l)
    \/ lwake[l] /\ ListenerPollLoad(l)
    \/ ListenerPollNotified(l)
    \/ DecLoad(l)
    \/ DecNotify(l)

QuitRuns(q) ==
    \/ QuitNotifyShutdown(q)
    \/ QuitLoad(q)
    \/ QuitNotifyDone(q)

WaitRuns(w) ==
    \/ wwake[w] /\ WaitPollLoad(w)
    \/ WaitPollCounter(w)
    \/ WaitPollNotified(w)

Fairness ==
    /\ \A l \in Listeners : WF_vars(ListenerRuns(l))
    /\ \A q \in Quits : WF_vars(QuitRuns(q))
    /\ \A w \in Waits : WF_vars(WaitRuns(w))

LiveInit == Start /\ track = FALSE /\ handler = NoSignals

LiveSpec == LiveInit /\ [][Next]_vars /\ Fairness

-----------------------------------------------------------------------------
(* quit() called from a signal handler (src/src/unix.rs, src/src/windows.rs). *)
(* The handler runs on the thread the signal interrupted, which stands still *)
(* until the handler returns.  Notified::poll and Notify::notify_waiters     *)
(* enter the waiter list of their Notify under its mutex; here the entry is  *)
(* a step of its own, so that a signal can arrive inside.                    *)

\* The Notify whose waiter list the next step of a listener's thread enters
ListenerWants(l) ==
    CASE lpc[l] = "poll_notified" -> "notify_shutdown"
      [] lpc[l] = "dec_notify"    -> "notify_done"
      [] OTHER                    -> "none"

\* The Notify whose waiter list the next step of a wait's thread enters
WaitWants(w) == IF wpc[w] = "poll_notified" THEN "notify_done" ELSE "none"

\* The Notify whose waiter list the next step of a quit() call enters
QuitWants(q) ==
    CASE qpc[q] = "notify_shutdown" -> "notify_shutdown"
      [] qpc[q] = "notify_done"     -> "notify_done"
      [] OTHER                      -> "none"

\* self.waiters.lock(): thread t enters the waiter list of Notify m
Lock(t, m) ==
    /\ Signals
    /\ ~Frozen(t)
    /\ m # "none"
    /\ mutex[m] = Free
    /\ mutex' = [mutex EXCEPT ![m] = t]
    /\ UNCHANGED << in_progress, counter, notify_shutdown, notify_done,
                    lvars, wvars, qvars, observed, signalled, track, handler >>

ListenerLock(l) == Lock(Thread("l", l), ListenerWants(l))

WaitLock(w) == Lock(Thread("w", w), WaitWants(w))

QuitLock(q) == Lock(Thread("q", q), QuitWants(q))

\* A thread that is inside an operation of the library
Inside(t) ==
    \/ \E l \in Listeners :
          t = Thread("l", l)
            /\ lpc[l] \in {"listen_notified", "poll_notified", "dec_load", "dec_notify"}
    \/ \E w \in Waits :
          t = Thread("w", w) /\ wpc[w] \in {"poll_counter", "poll_notified"}
    \/ \E q \in Quits :
          t = Thread("q", q) /\ qpc[q] \in {"notify_shutdown", "load", "notify_done"}

Threads ==
    {Thread("l", l) : l \in Listeners} \cup {Thread("w", w) : w \in Waits}
        \cup {Thread("q", q) : q \in Quits}

\* SIGINT or SIGTERM arrives on thread t: terminate() will call quit() there
Interrupt(q, t) ==
    /\ handler = NoSignalYet
    /\ qpc[q] = "none"
    /\ InOrder(qpc, q)
    /\ Inside(t)
    /\ handler' = [q |-> q, on |-> t]
    /\ UNCHANGED << in_progress, counter, notify_shutdown, notify_done,
                    lvars, wvars, qvars, observed, signalled, track, mutex >>

SignalNext ==
    \/ Next
    \/ \E l \in Listeners : ListenerLock(l)
    \/ \E w \in Waits : WaitLock(w)
    \/ \E q \in Quits : QuitLock(q)
    \/ \E q \in Quits, t \in Threads : Interrupt(q, t)

SignalInit == Start /\ track = FALSE /\ handler = NoSignalYet

SignalSpec == SignalInit /\ [][SignalNext]_vars

-----------------------------------------------------------------------------
(* Properties *)

Resolved(l) == llast[l] \in {"Ready", "ReadyAgain"}

\* C1: whenever a Wait returns Ready, shutdown has been triggered and no
\* ShutdownListener is alive at that moment.
C1_WaitReadyOnlyWhenDrained ==
    \A w \in Waits : wlast[w] = "Ready" => in_progress /\ wlive[w] = 0

\* C2: once quit() has been called and the counter is back to 0, a Wait that
\* exists and is polled when woken returns Ready, unless it is dropped first or
\* a further listen() raises the counter again.
C2_DrainedWaitResolves ==
    \A w \in Waits :
        (wpc[w] \notin {"none", "dropped"} /\ in_progress /\ counter = 0)
            ~> (wlast[w] = "Ready" \/ wpc[w] = "dropped" \/ counter > 0)

\* C2's case: a Wait that was woken by the broadcast of the last drop or of
\* quit() has returned Ready, with every listener dropped.
C2_Witness ==
    \E w \in Waits :
        /\ wlast[w] = "Ready" /\ wnotified[w] = "done"
        /\ QuitReturned /\ counter = 0
        /\ \A l \in Listeners : lpc[l] = "dropped"

\* C3: no missed wakeup: once quit() has returned, every listener that is alive
\* (those created before quit() among them) returns Ready on a poll, unless it
\* is dropped first.
C3_NoMissedWakeup ==
    \A l \in Listeners :
        (QuitReturned /\ Alive(l)) ~> (Resolved(l) \/ ~Alive(l))

\* C3's case: a listener whose Notified the broadcast of quit() reached has
\* returned Ready from the poll of that Notified.
C3_Witness ==
    \E l \in Listeners :
        Alive(l) /\ llast[l] = "Ready" /\ lnotified[l] = "done" /\ QuitReturned

\* C4: when no listen() began after quit() was called, a Wait returns Ready
\* only when every listener has been dropped.
C4_WaitReadyAfterAllDrops ==
    \A w \in Waits : (~late /\ wlast[w] = "Ready") => wlive[w] = 0

\* C5: a Wait never returns Ready before quit() has been called.
C5_WaitReadyOnlyInProgress ==
    \A w \in Waits : wlast[w] = "Ready" => in_progress

\* C5's case: a Wait has returned Ready from the poll of its Notified, that is,
\* by a broadcast of notify_done.
C5_Witness ==
    \E w \in Waits : wlast[w] = "Ready" /\ wvia[w] = "notified" /\ wlive[w] = 0

\* C6: the counter is the number of listeners whose listen() has incremented it
\* and whose drop has not decremented it; it is never negative, and it is 0
\* when every listener has been dropped.
C6_CounterAccuracy ==
    /\ counter = Cardinality({l \in Listeners : Counted(l)})
    /\ counter >= 0
    /\ (\A l \in Listeners : lpc[l] \in {"none", "dropped"}) => counter = 0

\* C6's case: every listener of the run was created and dropped.
C6_Witness ==
    /\ \A l \in Listeners : lpc[l] = "dropped"
    /\ counter = 0

\* C7: a listener whose listen() began after quit() stored the flag never
\* returns Pending and is never queued as a waiter.
C7_PostShutdownListenerReady ==
    \A l \in Listeners :
        lafter[l] => /\ llast[l] # "Pending"
                     /\ lpc[l] # "poll_notified"
                     /\ lnotified[l] \notin {"waiting", "done"}
                     /\ l \notin notify_shutdown

\* C7's case: such a listener has been polled, and returned Ready.
C7_Witness == \E l \in Listeners : lafter[l] /\ llast[l] = "Ready"

\* C8: in_progress starts false, is never set back to false, only the store of
\* quit() sets it, and once is_in_progress() has returned true it returns true.
C8_InProgressMonotonic ==
    /\ ~in_progress
    /\ [][ /\ in_progress => in_progress'
           /\ in_progress' # in_progress =>
                 \E q \in Quits : qpc[q] = "none" /\ qpc'[q] = "notify_shutdown"
           /\ observed' => in_progress' ]_vars

\* C8's case: is_in_progress() has returned true and quit() was called twice.
C8_Witness == observed /\ \A q \in Quits : qpc[q] = "done"

\* C9: a Wait that returns Ready while a listener is alive does so by a
\* broadcast that the run without the repeated quit() calls holds too.  (The
\* claim asks this of every Ready; it fails already for these.)
C9_RepeatedQuitChangesNothing ==
    \A w \in Waits :
        (wlast[w] = "Ready" /\ wvia[w] = "notified" /\ wlive[w] > 0) => wbase[w]

\* C10: a listener returns Ready only when in_progress is true, and after a
\* Ready every poll of it returns Ready.
C10_ListenerReadyStable ==
    /\ [](\A l \in Listeners : Resolved(l) => in_progress)
    /\ [][\A l \in Listeners :
            Resolved(l) => (Resolved(l)' \/ lpc'[l] = "dropped")]_vars

\* C10's case: a listener has returned Ready twice.
C10_Witness == \E l \in Listeners : llast[l] = "ReadyAgain"

\* C11: quit() called from a signal handler runs to completion whatever the
\* interrupted thread was doing: the handler never stands at a step that needs
\* what only the interrupted thread, which cannot run, can give back.
C11_SignalQuitNeverBlocked ==
    \A q \in Quits :
        (handler.q = q /\ qpc[q] # "done" /\ QuitWants(q) # "none")
            => mutex[QuitWants(q)] # handler.on

\* A step of the thread of a Wait: wait(), a step of its poll, or its drop
WaitStep == \E w \in Waits : wpc'[w] # wpc[w]

\* C12: Wait futures are not counted as listeners: creating, polling, resolving
\* or dropping a Wait leaves counter and in_progress as they are.
C12_WaitLeavesCounterAndFlag ==
    [][WaitStep => (counter' = counter /\ in_progress' = in_progress)]_vars

\* C12's case: a Wait was created and polled, and found the counter at the
\* number of the listeners, not 0; the counter is still that number.
C12_Witness ==
    \E w \in Waits :
        /\ wlast[w] = "Pending" /\ wnotified[w] = "waiting"
        /\ in_progress /\ counter > 0 /\ counter = LiveCount

\* A thread stands at a notify_done.notify_waiters() call, of dec or of quit
AtBroadcastDone ==
    \/ \E l \in Listeners : lpc[l] = "dec_notify"
    \/ \E q \in Quits : qpc[q] = "notify_done"

\* C13: every broadcast on notify_done, by dec or by quit, happens at a moment
\* when in_progress is true and counter is 0.
C13_BroadcastOnlyWhenDrained == AtBroadcastDone => (in_progress /\ counter = 0)

\* No drop is between its fetch_sub and its end, no quit() between its store
\* and its end
NothingInFlight ==
    /\ \A l \in Listeners : lpc[l] \notin {"dec_load", "dec_notify"}
    /\ \A q \in Quits : qpc[q] \in {"none", "done"}

\* C14: no lost drain signal: when shutdown is in progress, the counter is 0
\* and every drop and every quit() that began has ended, however their steps
\* were interleaved, one of them has broadcast notify_done at a moment when
\* in_progress was true and counter was 0, after the last rise of the counter.
\* (A dec that read in_progress as false and a quit that read a counter other
\* than 0, for the same last decrement, would end in such a state unsignalled.)
C14_NoLostDrainSignal ==
    (in_progress /\ counter = 0 /\ NothingInFlight) => signalled

\* C14's case: the drop of the last listener has raced with quit(): the drop
\* took the counter from 1 to 0 and has not yet read the flag, and quit() has
\* stored the flag, read the counter as 0 and broadcast.
C14_Witness ==
    \E l \in Listeners :
        /\ lpc[l] = "dec_load" /\ lprev[l] = 1
        /\ qpc[1] = "done" /\ signalled /\ counter = 0

\* C15: eager drain check.  A poll of a Wait that loads in_progress as true
\* goes on to load the counter, and when it loads 0 it returns Ready on that
\* poll without consulting its Notified, whatever state that is in.  A quit()
\* that loads the counter as 0 broadcasts notify_done, the broadcast wakes
\* every Wait that is queued, and the poll of a Wait that the broadcast
\* reached returns Ready.
C15_EagerDrainCheck ==
    [][ /\ \A w \in Waits :
             /\ (wpc[w] = "idle" /\ wpc'[w] \in {"poll_counter", "poll_notified"}
                    /\ in_progress)
                  => wpc'[w] = "poll_counter"
             /\ (wpc[w] = "poll_counter" /\ wpc'[w] # "poll_counter" /\ counter = 0)
                  => (wlast'[w] = "Ready" /\ wnotified'[w] = wnotified[w])
             /\ (wpc[w] = "poll_notified" /\ wpc'[w] = "idle"
                    /\ wnotified[w] = "notified")
                  => wlast'[w] = "Ready"
        /\ \A q \in Quits :
             /\ (qpc[q] = "load" /\ qpc'[q] # "load" /\ counter = 0)
                  => qpc'[q] = "notify_done"
             /\ (qpc[q] = "notify_done" /\ qpc'[q] = "done")
                  => \A w \in Waits :
                        wnotified[w] = "waiting"
                          => (wnotified'[w] = "notified" /\ wwake'[w]) ]_vars

\* C15's case: a Wait that an earlier poll had queued (it returned Pending) was
\* polled again once the counter was 0, and returned Ready by the eager check
\* before any broadcast reached it.
C15_Witness ==
    \E w \in Waits :
        wlast[w] = "Ready" /\ wvia[w] = "eager" /\ wnotified[w] = "waiting"

\* A step of quit()
QuitStep == \E q \in Quits : qpc'[q] # qpc[q]

\* A step of the thread of a listener: of listen(), of a poll or of the drop
ListenerStep ==
    \E l \in Listeners :
        lpc'[l] # lpc[l] \/ llast'[l] # llast[l] \/ (lwake[l] /\ ~lwake'[l])

\* A step of a poll of a listener
ListenerPollStep ==
    \E l \in Listeners :
        /\ lpc[l] \in {"idle", "poll_notified"}
        /\ lpc'[l] \in {"idle", "poll_notified"}
        /\ lpc'[l] # lpc[l] \/ llast'[l] # llast[l] \/ (lwake[l] /\ ~lwake'[l])

\* C16: quit() never changes counter; listen() and the drop of a listener
\* never change in_progress; a poll of a listener changes neither.
C16_FrameConditions ==
    [][ /\ QuitStep => counter' = counter
        /\ ListenerStep => in_progress' = in_progress
        /\ ListenerPollStep => counter' = counter ]_vars

\* C16's case: quit() has returned and left a listener counted; since then a
\* listen() and a drop have run and a listener was polled twice, and shutdown
\* is still in progress.
C16_Witness ==
    \E l1, l2 \in Listeners :
        /\ lpc[l1] = "dropped"
        /\ lafter[l2] /\ llast[l2] = "ReadyAgain"
        /\ \A q \in Quits : qpc[q] = "done"
        /\ in_progress /\ counter = 1

\* C17: while in_progress is false no thread is at a notify_done broadcast and
\* no broadcast has reached a Wait: a drop that runs before quit() is called
\* does not broadcast, even when it takes the counter from 1 to 0.
C17_NoBroadcastBeforeQuit ==
    ~in_progress =>
        /\ ~AtBroadcastDone
        /\ ~signalled
        /\ \A w \in Waits : wnotified[w] \notin {"notified", "done"}

\* C17's case: before any quit(), every listener was dropped, the last drop
\* taking the counter to 0, and a Wait that is queued was not woken.
C17_Witness ==
    /\ ~in_progress /\ counter = 0
    /\ \A l \in Listeners : lpc[l] = "dropped"
    /\ \E w \in Waits : wnotified[w] = "waiting" /\ ~wwake[w]

=============================================================================
